---- MODULE Spec2Model ----
(***************************************************************************)
(* A model of the london-rag-agent core: the vector retrieval store        *)
(* (src/src/RAG/rag_engine.py), the rule-based agent pipeline              *)
(* (src/src/RAG/agent.py) and the HTTP handlers that share one store       *)
(* (src/src/main.py).                                                      *)
(*                                                                         *)
(* Texts are sequences of one-character strings, so that lower(), title(), *)
(* substring tests and the regular expressions of the planner are computed *)
(* character by character.  Python's None and a missing file are the       *)
(* record None; a present value v is Some(v).                              *)
(***************************************************************************)
EXTENDS Integers, Sequences, FiniteSets, TLC

VARIABLES
    catalog,    \* the processed catalog load_processed_df() returns
    store,      \* RAGStore in memory: df, index, texts, metas
    disk,       \* the three persisted artifacts
    last,       \* the last request or call on the store, with its outcome
    built,      \* history: the last successful build
    bld,        \* per builder thread: position and locals of build_index
    qry,        \* the query thread: position and locals of query
    run         \* one SimpleAgent.run: position, locals, trace, response

vars == <<catalog, store, disk, last, built, bld, qry, run>>

----------------------------------------------------------------------------
(* Bounds of the model. *)

MaxRows == 2        \* rows of a catalog given to the store
MaxK == 3           \* largest k of a query
MaxExecRows == 6    \* rows of a catalog given to execute

----------------------------------------------------------------------------
(* Optional values and call outcomes. *)

None == [some |-> FALSE, val |-> <<>>]
Some(v) == [some |-> TRUE, val |-> v]

Ok(v) == [kind |-> "ok", exc |-> "", val |-> v]
Raise(e) == [kind |-> "raise", exc |-> e, val |-> <<>>]

Min(a, b) == IF a <= b THEN a ELSE b

----------------------------------------------------------------------------
(* Characters and strings (str.lower, str.title, the "in" operator). *)

UpperCh == <<"A","B","C","D","E","F","G","H","I","J","K","L","M",
             "N","O","P","Q","R","S","T","U","V","W","X","Y","Z">>
LowerCh == <<"a","b","c","d","e","f","g","h","i","j","k","l","m",
             "n","o","p","q","r","s","t","u","v","w","x","y","z">>
DigitCh == <<"0","1","2","3","4","5","6","7","8","9">>

IsUpper(c) == \E i \in 1..26 : UpperCh[i] = c
IsLower(c) == \E i \in 1..26 : LowerCh[i] = c
IsAlpha(c) == IsUpper(c) \/ IsLower(c)
IsDigit(c) == \E i \in 1..10 : DigitCh[i] = c
IsSpace(c) == c = " "
Digits == {DigitCh[i] : i \in 1..10}
Spaces == {" "}

LowerOf(c) == IF IsUpper(c) THEN LowerCh[CHOOSE i \in 1..26 : UpperCh[i] = c] ELSE c
UpperOf(c) == IF IsLower(c) THEN UpperCh[CHOOSE i \in 1..26 : LowerCh[i] = c] ELSE c
DigitVal(c) == (CHOOSE i \in 1..10 : DigitCh[i] = c) - 1

Lower(s) == [i \in 1..Len(s) |-> LowerOf(s[i])]

\* str.title(): a letter is upper-cased when no letter precedes it, else lower-cased.
Title(s) ==
    [i \in 1..Len(s) |->
        IF i = 1 \/ ~IsAlpha(s[i - 1]) THEN UpperOf(s[i]) ELSE LowerOf(s[i])]

\* sub occurs in s starting at position i
OccursAt(sub, s, i) ==
    /\ i >= 1
    /\ i + Len(sub) - 1 <= Len(s)
    /\ \A j \in 1..Len(sub) : s[i + j - 1] = sub[j]

\* Python: sub in s
Contains(sub, s) == \E i \in 1..(Len(s) + 1) : OccursAt(sub, s, i)

----------------------------------------------------------------------------
(* Catalog data.  A PropertyRecord keeps the fields the core reads;        *)
(* property_id and address are opaque strings, borough is a text.          *)

Pool == <<
    [property_id |-> "P001", address |-> "10 High Street",
     borough |-> <<"C","a","m","d","e","n">>,
     bedrooms |-> 3, price |-> 450000],
    [property_id |-> "P002", address |-> "2 Mare Street",
     borough |-> <<"H","a","c","k","n","e","y">>,
     bedrooms |-> 2, price |-> 300000],
    [property_id |-> "P003", address |-> "7 Chalk Farm Road",
     borough |-> <<"C","a","m","d","e","n">>,
     bedrooms |-> 2, price |-> 300000],
    [property_id |-> "P004", address |-> "1 Abbey Road",
     borough |-> <<"W","e","s","t","m","i","n","s","t","e","r">>,
     bedrooms |-> 3, price |-> 900000],
    [property_id |-> "P005", address |-> "5 Lock Lane",
     borough |-> <<"C","a","m","d","e","n"," ","T","o","w","n">>,
     bedrooms |-> 2, price |-> 450000],
    [property_id |-> "P006", address |-> "9 Well Street",
     borough |-> <<"H","a","c","k","n","e","y">>,
     bedrooms |-> 3, price |-> 250000],
    [property_id |-> "P007", address |-> "4 Kentish Road",
     borough |-> <<"C","a","m","d","e","n">>,
     bedrooms |-> 2, price |-> 520000],
    [property_id |-> "P008", address |-> "8 Dalston Lane",
     borough |-> <<"H","a","c","k","n","e","y">>,
     bedrooms |-> 2, price |-> 610000]
>>

\* catalogs handed to the store: the first n pool rows, n up to MaxRows
StoreCatalogs ==
    {SubSeq(Pool, 1, n) : n \in 0..MaxRows}

----------------------------------------------------------------------------
(* Orderings a sort may produce: every arrangement of S that is            *)
(* non-decreasing in key; equal keys come in any order (numpy's default    *)
(* quicksort and faiss's result heap are not stable).                      *)

MinKey(S, key) == CHOOSE m \in {key[x] : x \in S} : \A y \in S : m <= key[y]

RECURSIVE SortedOrders(_, _)
SortedOrders(S, key) ==
    IF S = {} THEN {<<>>}
    ELSE LET m == MinKey(S, key)
         IN UNION {{<<x>> \o rest : rest \in SortedOrders(S \ {x}, key)} :
                   x \in {y \in S : key[y] = m}}

----------------------------------------------------------------------------
(* The embedding capability (SentenceTransformer.encode): a deterministic  *)
(* map from a text to a point; one coordinate stands for the vector.       *)

EmbedMod == 25

\* the document text of build_index: id | address | borough | bedrooms | price
DocText(r) == <<r.property_id, r.address, r.borough, r.bedrooms, r.price>>

EncodeDoc(text) == ((text[5] \div 50000) + text[4]) % EmbedMod
EncodeQuery(q) == (Len(q) * 3) % EmbedMod

\* IndexFlatL2: squared Euclidean distance
L2(a, b) == (a - b) * (a - b)

\* the distance faiss reports for a slot it could not fill (label -1)
FltMax == EmbedMod * EmbedMod

----------------------------------------------------------------------------
(* RAGStore (rag_engine.py). *)

FreshStore == [df |-> None, index |-> None, texts |-> <<>>, metas |-> <<>>]
EmptyDisk == [emb |-> None, index |-> None, meta |-> None]

Docs(df) == [i \in 1..Len(df) |-> DocText(df[i])]
\* the row label of iterrows() is the RangeIndex of read_csv: 0, 1, ...
Metas(df) == [i \in 1..Len(df) |-> [pid |-> df[i].property_id, row |-> i - 1]]
Embeddings(docs) == [i \in 1..Len(docs) |-> EncodeDoc(docs[i])]

\* where an external call of build_index can raise
BuildFaults == {"none", "encode", "save_embeddings", "write_index", "dump_meta"}

\* build_index(df), its statements in order; a call that raises has had no
\* effect of its own, every statement before it has.
BuildIndex(s, d, df, fault) ==
    LET docs == Docs(df)
        metas == Metas(df)
        emb == Embeddings(docs)
        s1 == [s EXCEPT !.df = Some(df)]
        d1 == [d EXCEPT !.emb = Some(emb)]
        s2 == [s1 EXCEPT !.index = Some(emb), !.texts = docs, !.metas = metas]
        d2 == [d1 EXCEPT !.index = Some(emb)]
        d3 == [d2 EXCEPT !.meta = Some([texts |-> docs, metas |-> metas])]
    IN  IF fault = "encode"
          THEN [store |-> s1, disk |-> d, res |-> Raise("EncodeError")]
        ELSE IF fault = "save_embeddings"
          THEN [store |-> s1, disk |-> d, res |-> Raise("OSError")]
        ELSE IF Len(docs) = 0      \* emb.shape[1] of an array of shape (0,)
          THEN [store |-> s1, disk |-> d1, res |-> Raise("IndexError")]
        ELSE IF fault = "write_index"
          THEN [store |-> s2, disk |-> d1, res |-> Raise("OSError")]
        ELSE IF fault = "dump_meta"
          THEN [store |-> s2, disk |-> d2, res |-> Raise("OSError")]
        ELSE [store |-> s2, disk |-> d3, res |-> Ok(Len(docs))]

\* load_index(): True, False, or the error of opening a missing metadata file
LoadIndex(s, d) ==
    IF d.index.some
      THEN LET s1 == [s EXCEPT !.index = Some(d.index.val)]
           IN IF d.meta.some
                THEN [store |-> [s1 EXCEPT !.texts = d.meta.val.texts,
                                           !.metas = d.meta.val.metas],
                      res |-> Ok(TRUE)]
                ELSE [store |-> s1, res |-> Raise("FileNotFoundError")]
      ELSE [store |-> s, res |-> Ok(FALSE)]

\* Python list indexing with a possibly negative index
ValidIdx(list, idx) == -Len(list) <= idx /\ idx < Len(list)
PyItem(list, idx) == IF idx >= 0 THEN list[idx + 1] ELSE list[Len(list) + idx + 1]

\* index.search(q, k): the k nearest (distance, label) pairs by ascending
\* distance, labels from 0; slots beyond ntotal hold (FltMax, -1).
Search(vecs, qv, k) ==
    LET n == Len(vecs)
        dist == [i \in 1..n |-> L2(vecs[i], qv)]
    IN {[j \in 1..k |->
            IF j <= n THEN [d |-> dist[ord[j]], idx |-> ord[j] - 1]
                      ELSE [d |-> FltMax, idx |-> -1]] :
        ord \in SortedOrders(1..n, dist)}

\* the result loop of query over one search result
Collect(hits, texts, metas) ==
    IF \A j \in 1..Len(hits) :
            ValidIdx(metas, hits[j].idx) /\ ValidIdx(texts, hits[j].idx)
      THEN Ok([j \in 1..Len(hits) |->
                [property_id |-> PyItem(metas, hits[j].idx).pid,
                 distance |-> hits[j].d,
                 snippet |-> PyItem(texts, hits[j].idx)]])
      ELSE Raise("IndexError")

\* query(q, k): the outcomes it can have
Query(s, q, k) ==
    IF ~s.index.some
      THEN {Raise("ValueError")}    \* "FAISS index not built or loaded."
      ELSE {Collect(hits, s.texts, s.metas) :
            hits \in Search(s.index.val, EncodeQuery(q), k)}

----------------------------------------------------------------------------
(* SimpleAgent (agent.py): the four stages as functions of their inputs.   *)

Pound == "£"
CheapWord == <<"c","h","e","a","p">>
CheapSuffix == <<" ","u","n","d","e","r"," ">> \o <<Pound>> \o <<"5","0","0","0","0","0">>
BedWord == <<"b","e","d">>
UnderWord == <<"u","n","d","e","r">>

\* the boroughs the planner scans for, in the order it scans them
KnownBoroughs == <<
    <<"c","a","m","d","e","n">>,
    <<"w","e","s","t","m","i","n","s","t","e","r">>,
    <<"h","a","c","k","n","e","y">>,
    <<"l","a","m","b","e","t","h">>,
    <<"g","r","e","e","n","w","i","c","h">>,
    <<"i","s","l","i","n","g","t","o","n">>
>>

TopN == 5

\* clarify(q)
Clarify(q) == IF Contains(CheapWord, Lower(q)) THEN q \o CheapSuffix ELSE q

\* the end of the longest run of characters of the class cls that starts at
\* i (i - 1 when s[i] is not one)
RunEnd(s, i, cls) ==
    LET stops == {j \in i..(Len(s) + 1) : j = Len(s) + 1 \/ s[j] \notin cls}
    IN (CHOOSE j \in stops : \A x \in stops : j <= x) - 1

\* int() of a string of decimal digits; the empty string has no value
RECURSIVE IntOf(_)
IntOf(ds) ==
    IF Len(ds) = 0 THEN 0
    ELSE IntOf(SubSeq(ds, 1, Len(ds) - 1)) * 10 + DigitVal(ds[Len(ds)])

\* re.search(r"(\d+)\s*bed", q): group 1 of the leftmost match, or None
BedMatchAt(q, i) ==
    /\ i <= Len(q)
    /\ IsDigit(q[i])
    /\ OccursAt(BedWord, q, RunEnd(q, RunEnd(q, i, Digits) + 1, Spaces) + 1)
SearchBed(q) ==
    IF \E i \in 1..Len(q) : BedMatchAt(q, i)
      THEN LET i == CHOOSE x \in 1..Len(q) :
                      BedMatchAt(q, x) /\ \A y \in 1..(x - 1) : ~BedMatchAt(q, y)
           IN Some(SubSeq(q, i, RunEnd(q, i, Digits)))
      ELSE None

\* re.search(r"under\s*£?([0-9,]+)k?", q): group 1 of the leftmost match
PriceChars == Digits \cup {","}
IsPriceCh(c) == c \in PriceChars
PriceStart(q, i) ==
    LET a == RunEnd(q, i + Len(UnderWord), Spaces) + 1
    IN IF a <= Len(q) /\ q[a] = Pound THEN a + 1 ELSE a
UnderMatchAt(q, i) ==
    /\ OccursAt(UnderWord, q, i)
    /\ LET a == RunEnd(q, i + Len(UnderWord), Spaces) + 1
       IN \/ (a <= Len(q) /\ q[a] = Pound /\ a + 1 <= Len(q) /\ IsPriceCh(q[a + 1]))
          \/ (a <= Len(q) /\ IsPriceCh(q[a]))
SearchUnder(q) ==
    IF \E i \in 1..Len(q) : UnderMatchAt(q, i)
      THEN LET i == CHOOSE x \in 1..Len(q) :
                      UnderMatchAt(q, x) /\ \A y \in 1..(x - 1) : ~UnderMatchAt(q, y)
               a == PriceStart(q, i)
           IN Some(SubSeq(q, a, RunEnd(q, a, PriceChars)))
      ELSE None

\* str.replace(",", "")
RECURSIVE DropCommas(_)
DropCommas(s) ==
    IF Len(s) = 0 THEN <<>>
    ELSE (IF s[1] = "," THEN <<>> ELSE <<s[1]>>) \o DropCommas(Tail(s))

\* the borough loop: the last known borough found in q, title-cased
RECURSIVE LastBorough(_, _, _)
LastBorough(q, n, acc) ==
    IF n > Len(KnownBoroughs) THEN acc
    ELSE LastBorough(q, n + 1,
            IF Contains(KnownBoroughs[n], q) THEN Some(Title(KnownBoroughs[n])) ELSE acc)

NoFilters == [bedrooms |-> None, borough |-> None, max_price |-> None]

\* plan(clarified): the plan, or the ValueError of int("")
Plan(clarified) ==
    LET q == Lower(clarified)
        m == SearchBed(q)
        m2 == SearchUnder(q)
        digits == IF m2.some THEN DropCommas(m2.val) ELSE <<>>
        val == IntOf(digits)
    IN IF m2.some /\ Len(digits) = 0 THEN Raise("ValueError")
       ELSE Ok([tool |-> "filter",
                filters |->
                  [bedrooms |-> IF m.some THEN Some(IntOf(m.val)) ELSE None,
                   borough |-> LastBorough(q, 1, None),
                   max_price |->
                     IF m2.some
                       THEN Some(IF Contains(<<"k">>, q) THEN val * 1000 ELSE val)
                       ELSE None]])

\* the three row filters of execute
BoroughOk(f, r) == ~f.borough.some \/ Contains(Lower(f.borough.val), Lower(r.borough))
BedroomsOk(f, r) == ~f.bedrooms.some \/ r.bedrooms = f.bedrooms.val
PriceOkStrict(f, r) == ~f.max_price.some \/ r.price < f.max_price.val
PriceOk(f, r) == ~f.max_price.some \/ r.price <= f.max_price.val
Matches(f, r) == BoroughOk(f, r) /\ BedroomsOk(f, r) /\ PriceOk(f, r)

\* df.sort_values("price").head(5)
Head5(rows) == SubSeq(rows, 1, Min(TopN, Len(rows)))

\* execute(plan): the outcomes it can have on the store's df
Execute(plan, s) ==
    IF ~s.df.some THEN {Raise("AttributeError")}     \* None.copy()
    ELSE LET df == s.df.val
             keep == {i \in 1..Len(df) : Matches(plan.filters, df[i])}
             price == [i \in 1..Len(df) |-> df[i].price]
         IN {Ok(Head5([j \in 1..Len(ord) |-> df[ord[j]]])) :
             ord \in SortedOrders(keep, price)}

\* respond(results)
Respond(results) ==
    IF Len(results) = 0
      THEN [answer |-> <<"No matching properties found.">>, citations |-> <<>>]
      ELSE [answer |-> <<"Found properties:">> \o
                [j \in 1..Len(results) |->
                    <<results[j].address, results[j].price, results[j].property_id>>],
            citations |-> [j \in 1..Len(results) |-> results[j].property_id]]

\* the trace and answer of a run whose stages all return
RunSteps(clarified, plan, results, final) ==
    << [step |-> "clarify", output |-> clarified],
       [step |-> "plan", output |-> plan],
       [step |-> "execute", rows |-> Len(results)],
       [step |-> "respond", output |-> final] >>

\* run(q) as one call: what it returns, or the exception that leaves it
RunOutcomes(s, q) ==
    LET clarified == Clarify(q)
        p == Plan(clarified)
    IN IF p.kind = "raise" THEN {p}
       ELSE {IF e.kind = "raise" THEN e
             ELSE Ok([steps |-> RunSteps(clarified, p.val, e.val, Respond(e.val)),
                      final |-> Respond(e.val)]) :
             e \in Execute(p.val, s)}

----------------------------------------------------------------------------
(* Questions put to the agent and to the retrieval endpoint. *)

Questions == <<
    <<"3"," ","b","e","d"," ","f","l","a","t"," ","i","n"," ","c","a","m","d","e","n"," ","u","n","d","e","r"," ","5","0","0","k">>,
    <<"2"," ","b","e","d"," ","i","n"," ","c","a","m","d","e","n"," ","a","n","d"," ","w","e","s","t","m","i","n","s","t","e","r"," ","u","n","d","e","r"," ",Pound,"4","0","0","0","0","0">>,
    <<"c","h","e","a","p"," ","2"," ","b","e","d"," ","i","n"," ","C","a","m","d","e","n">>,
    <<"f","l","a","t"," ","u","n","d","e","r"," ",",">>,
    <<"C","H","E","A","P"," ","f","l","a","t"," ","i","n"," ","h","a","c","k","n","e","y">>,
    <<"3"," ","b","e","d"," ","i","n"," ","h","a","c","k","n","e","y"," ","u","n","d","e","r"," ","4","0","0","0","0","0",","," ","k","i","t","c","h","e","n"," ","i","n","c","l","u","d","e","d">>,
    <<"s","o","m","e","w","h","e","r","e"," ","n","i","c","e">>
>>

AgentQueries == {Questions[i] : i \in 1..Len(Questions)}
StoreQueries == {Questions[1], Questions[4]}

----------------------------------------------------------------------------
(* The HTTP handlers of main.py on the module-level store `rag`, and the   *)
(* store's own calls.  Every handler turns an exception into HTTP 500.     *)

Http(res) ==
    IF res.kind = "ok" THEN [status |-> 200, error |-> ""]
                       ELSE [status |-> 500, error |-> res.exc]

\* `last` keeps the store and the files as they were before a build or a load
NoSnapshot == [store |-> FreshStore, disk |-> EmptyDisk]
Snapshot == [store |-> store, disk |-> disk]
NoOp == [op |-> "none", pre |-> NoSnapshot,
         arg |-> <<>>, res |-> Ok(<<>>), http |-> Http(Ok(<<>>))]
Done(op, arg, res) ==
    [op |-> op, pre |-> IF op \in {"build", "load"} THEN Snapshot ELSE NoSnapshot,
     arg |-> arg, res |-> res, http |-> Http(res)]

\* `built` is the catalog of the last successful build, and whether a build
\* or a load has succeeded on the store since it was constructed
NoBuild == [some |-> FALSE, df |-> <<>>, ready |-> FALSE]

IdleBld == [b \in {} |-> <<>>]
IdleQry == [pc |-> "off"]
IdleRun == [pc |-> "off"]

\* a load that returned True makes the store ready
Loaded(res) == res.kind = "ok" /\ res.val

InitStore ==
    /\ catalog \in StoreCatalogs
    /\ store = FreshStore
    /\ disk = EmptyDisk
    /\ last = NoOp
    /\ built = NoBuild
    /\ bld = IdleBld
    /\ qry = IdleQry
    /\ run = IdleRun

\* the catalog in S3 is replaced wholesale (POST /process)
CatalogRefresh ==
    /\ catalog' \in StoreCatalogs \ {catalog}
    /\ UNCHANGED <<store, disk, last, built, bld, qry, run>>

\* the process restarts: `rag = RAGStore()` runs again, the files stay
Restart ==
    /\ store' = FreshStore
    /\ last' = Done("restart", <<>>, Ok(<<>>))
    /\ built' = [built EXCEPT !.ready = FALSE]
    /\ UNCHANGED <<catalog, disk, bld, qry, run>>

\* POST /build-index
BuildIndexReq ==
    \E fault \in BuildFaults \cup {"load_df"} :
        LET b == IF fault = "load_df"
                   THEN [store |-> store, disk |-> disk, res |-> Raise("S3Error")]
                   ELSE BuildIndex(store, disk, catalog, fault)
        IN /\ store' = b.store
           /\ disk' = b.disk
           /\ last' = Done("build", catalog, b.res)
           /\ built' = IF b.res.kind = "ok"
                         THEN [some |-> TRUE, df |-> catalog, ready |-> TRUE]
                         ELSE built
           /\ UNCHANGED <<catalog, bld, qry, run>>

\* rag.load_index()
LoadIndexCall ==
    LET l == LoadIndex(store, disk)
    IN /\ store' = l.store
       /\ last' = Done("load", <<>>, l.res)
       /\ built' = [built EXCEPT !.ready = @ \/ Loaded(l.res)]
       /\ UNCHANGED <<catalog, disk, bld, qry, run>>

\* rag.query(q, k)
QueryCall ==
    \E q \in StoreQueries, k \in 1..MaxK :
        \E r \in Query(store, q, k) :
            /\ last' = Done("query", [q |-> q, k |-> k], r)
            /\ UNCHANGED <<catalog, store, disk, built, bld, qry, run>>

\* POST /rag/query
RagQueryReq ==
    \E q \in StoreQueries, k \in 1..MaxK :
        LET l == IF ~store.index.some THEN LoadIndex(store, disk)
                                      ELSE [store |-> store, res |-> Ok(FALSE)]
        IN \E r \in (IF l.res.kind = "raise" THEN {l.res} ELSE Query(l.store, q, k)) :
            /\ store' = l.store
            /\ last' = Done("rag_query", [q |-> q, k |-> k], r)
            /\ built' = [built EXCEPT !.ready = @ \/ Loaded(l.res)]
            /\ UNCHANGED <<catalog, disk, bld, qry, run>>

\* POST /agent/run
AgentRunReq ==
    \E q \in StoreQueries, fault \in {"none", "load_df"} :
        /\ fault = "load_df" => ~store.df.some
        /\ LET l == IF store.df.some THEN [store |-> store, res |-> Ok(FALSE)]
                    ELSE IF fault = "load_df"
                      THEN [store |-> store, res |-> Raise("S3Error")]
                    ELSE LoadIndex([store EXCEPT !.df = Some(catalog)], disk)
           IN \E r \in (IF l.res.kind = "raise" THEN {l.res}
                                                ELSE RunOutcomes(l.store, q)) :
                /\ store' = l.store
                /\ last' = Done("agent_run", q, r)
                /\ built' = [built EXCEPT !.ready = @ \/ Loaded(l.res)]
                /\ UNCHANGED <<catalog, disk, bld, qry, run>>

Next ==
    \/ CatalogRefresh
    \/ Restart
    \/ BuildIndexReq
    \/ LoadIndexCall
    \/ QueryCall
    \/ RagQueryReq
    \/ AgentRunReq

Spec == InitStore /\ [][Next]_vars

----------------------------------------------------------------------------
(* Claims about the store, checked under Spec. *)

\* the store and the files right after a successful build of df
BuiltStore(df) == BuildIndex(FreshStore, EmptyDisk, df, "none").store
BuiltDisk(df) == BuildIndex(FreshStore, EmptyDisk, df, "none").disk

Rows(x) == IF x.some THEN Len(x.val) ELSE 0

\* C1: a build that fails leaves the store's df, index, texts and metas and
\* the three persisted artifacts exactly as they were before the call.
C1_FailedBuildChangesNothing ==
    (last.op = "build" /\ last.res.kind = "raise")
        => (store = last.pre.store /\ disk = last.pre.disk)

\* C5: a query made while no build and no load has succeeded on the store
\* returns no results and raises the store's not-ready error (the ValueError
\* "FAISS index not built or loaded." of query's guard).
C5_QueryBeforeReadyRaises ==
    (last.op = "query" /\ ~built.ready)
        => (last.res.kind = "raise" /\ last.res.exc = "ValueError")

\* C6: a load with any of the three artifacts missing raises the not-found
\* error (for this code, the FileNotFoundError of open) and leaves the
\* store's index, texts and metas unchanged.
C6_LoadMissingArtifactRaises ==
    (last.op = "load"
        /\ (~last.pre.disk.emb.some \/ ~last.pre.disk.index.some
                \/ ~last.pre.disk.meta.some))
        => (/\ last.res.kind = "raise"
            /\ last.res.exc = "FileNotFoundError"
            /\ store = last.pre.store)

\* C7: a load, into a fresh store, of the artifacts a successful build(C)
\* persisted yields the in-memory state right after that build (vectors,
\* metadata, catalog), so every query returns the same results on both.
C7_LoadRestoresBuiltState ==
    (last.op = "load" /\ Loaded(last.res) /\ last.pre.store = FreshStore
        /\ built.some /\ disk = BuiltDisk(built.df))
        => (/\ store = BuiltStore(built.df)
            /\ \A q \in StoreQueries, k \in 1..MaxK :
                   Query(store, q, k) = Query(BuiltStore(built.df), q, k))

\* C8: in every reachable state of the shared store, the number of indexed
\* vectors, of metadata entries and of rows of the store's catalog are equal,
\* and equal the row count of the catalog of the last successful build.
C8_CountsAgree ==
    built.some
        => (/\ Rows(store.index) = Len(store.metas)
            /\ Len(store.metas) = Rows(store.df)
            /\ Rows(store.df) = Len(built.df))

\* C9: on a ready store, query(t, k) with k > 0 returns at most
\* min(k, number of indexed entries) results, each a distinct indexed entry,
\* in non-decreasing distance.
C9_QueryResultBounded ==
    (last.op = "query" /\ built.ready /\ last.res.kind = "ok")
        => LET r == last.res.val
           IN /\ Len(r) <= Min(last.arg.k, Rows(store.index))
              /\ \A i, j \in 1..Len(r) :
                    i # j => r[i].property_id # r[j].property_id
              /\ \A i \in 1..(Len(r) - 1) : r[i].distance <= r[i + 1].distance

----------------------------------------------------------------------------
(* One SimpleAgent.run, stage by stage (SpecAgent).  `run` holds the frame *)
(* of run(): its locals, the trace `steps`, and what reaches the caller.   *)

\* catalogs handed to execute: the first MaxExecRows pool rows, any of them
\* left out, in pool order
RECURSIVE Pick(_, _)
Pick(rows, S) ==
    IF Len(rows) = 0 THEN <<>>
    ELSE Pick(SubSeq(rows, 1, Len(rows) - 1), S)
            \o (IF Len(rows) \in S THEN <<rows[Len(rows)]>> ELSE <<>>)
ExecCatalogs == {Pick(Pool, S) : S \in SUBSET (1..MaxExecRows)}

AgentDfs ==
    {None} \cup {Some(c) : c \in StoreCatalogs}
           \cup {Some(SubSeq(Pool, 1, MaxExecRows))}

\* steps.append(...)
TraceAppendSkipsPlan(steps, entry) ==
    IF entry.step = "plan" THEN steps ELSE Append(steps, entry)
TraceAppend(steps, entry) == Append(steps, entry)

NoPlan == [tool |-> "filter", filters |-> NoFilters]
NoAnswer == [answer |-> <<>>, citations |-> <<>>]

InitAgent ==
    /\ catalog = <<>>
    /\ \E d \in AgentDfs : store = [FreshStore EXCEPT !.df = d]
    /\ disk = EmptyDisk
    /\ last = NoOp
    /\ built = NoBuild
    /\ bld = IdleBld
    /\ qry = IdleQry
    /\ \E q \in AgentQueries :
          run = [pc |-> "start", q |-> q, clarified |-> <<>>, plan |-> NoPlan,
                 results |-> <<>>, steps |-> <<>>, final |-> NoAnswer,
                 failed |-> "", resp |-> Ok(<<>>)]

\* an exception leaves run(): the frame and its `steps` are gone, the caller
\* holds the exception
Propagate(stage, e) ==
    run' = [run EXCEPT !.pc = "raised", !.failed = stage, !.resp = e]

StageClarify ==
    /\ run.pc = "start"
    /\ LET c == Clarify(run.q)
       IN run' = [run EXCEPT !.pc = "clarified", !.clarified = c,
                    !.steps = TraceAppend(@, [step |-> "clarify", output |-> c])]
    /\ UNCHANGED <<catalog, store, disk, last, built, bld, qry>>

StagePlan ==
    /\ run.pc = "clarified"
    /\ LET p == Plan(run.clarified)
       IN IF p.kind = "raise" THEN Propagate("plan", p)
          ELSE run' = [run EXCEPT !.pc = "planned", !.plan = p.val,
                    !.steps = TraceAppend(@, [step |-> "plan", output |-> p.val])]
    /\ UNCHANGED <<catalog, store, disk, last, built, bld, qry>>

StageExecute ==
    /\ run.pc = "planned"
    /\ \E e \in Execute(run.plan, store) :
          IF e.kind = "raise" THEN Propagate("execute", e)
          ELSE run' = [run EXCEPT !.pc = "executed", !.results = e.val,
                    !.steps = TraceAppend(@, [step |-> "execute", rows |-> Len(e.val)])]
    /\ UNCHANGED <<catalog, store, disk, last, built, bld, qry>>

StageRespond ==
    /\ run.pc = "executed"
    /\ LET f == Respond(run.results)
       IN run' = [run EXCEPT !.pc = "responded", !.final = f,
                    !.steps = TraceAppend(@, [step |-> "respond", output |-> f])]
    /\ UNCHANGED <<catalog, store, disk, last, built, bld, qry>>

RunReturn ==
    /\ run.pc = "responded"
    /\ run' = [run EXCEPT !.pc = "done",
                          !.resp = Ok([steps |-> run.steps, final |-> run.final])]
    /\ UNCHANGED <<catalog, store, disk, last, built, bld, qry>>

NextAgent ==
    \/ StageClarify
    \/ StagePlan
    \/ StageExecute
    \/ StageRespond
    \/ RunReturn

SpecAgent == InitAgent /\ [][NextAgent]_vars

StageOrder == <<"clarify", "plan", "execute", "respond">>
StageNames(steps) == [i \in 1..Len(steps) |-> steps[i].step]

\* stages completed at each position of run()
Completed(pc) ==
    CASE pc = "start" -> 0
      [] pc = "clarified" -> 1
      [] pc = "planned" -> 2
      [] pc = "executed" -> 3
      [] pc \in {"responded", "done"} -> 4

\* C3: when a stage raises, the caller receives a StageFailure that carries
\* the stage's name, the original cause and the trace of the stages completed
\* before the failure, and no final answer.
C3_StageFailureCarriesTrace ==
    run.pc = "raised"
        => (/\ run.resp.kind = "raise"
            /\ run.resp.exc = "StageFailure"
            /\ run.resp.val.stage = run.failed
            /\ run.resp.val.trace = run.steps)

\* C4: a run goes through clarify, plan, execute, respond in that order, one
\* trace entry per stage; the trace returned has exactly these four entries,
\* the execute entry holds the number of result rows and not the rows, and
\* the final value returned is the output of the respond entry.
C4_TraceFollowsStages ==
    /\ run.pc \in {"start", "clarified", "planned", "executed", "responded", "done"}
         => StageNames(run.steps) = SubSeq(StageOrder, 1, Completed(run.pc))
    /\ run.pc = "done"
         => /\ run.resp.kind = "ok"
            /\ StageNames(run.resp.val.steps) = StageOrder
            /\ DOMAIN run.resp.val.steps[3] = {"step", "rows"}
            /\ run.resp.val.steps[3].rows = Len(run.results)
            /\ run.resp.val.final = run.resp.val.steps[4].output

C4_Witness ==
    /\ run.pc = "done"
    /\ Len(run.results) > 1
    /\ Len(run.resp.val.final.citations) = Len(run.results)

----------------------------------------------------------------------------
(* execute(plan) on its own, for any filter plan and catalog (SpecExec). *)

PlanBoroughs == {None, Some(<<"C","a","m","d","e","n">>), Some(<<"h","a","c","k","n","e","y">>)}
PlanBedrooms == {None, Some(2), Some(3)}
PlanPrices == {None, Some(300000), Some(450000), Some(1000000)}

FilterPlans ==
    {[tool |-> "filter",
      filters |-> [bedrooms |-> bd, borough |-> bo, max_price |-> mp]] :
        bd \in PlanBedrooms, bo \in PlanBoroughs, mp \in PlanPrices}

InitExec ==
    /\ catalog = <<>>
    /\ \E c \in ExecCatalogs : store = [FreshStore EXCEPT !.df = Some(c)]
    /\ disk = EmptyDisk
    /\ last = NoOp
    /\ built = NoBuild
    /\ bld = IdleBld
    /\ qry = IdleQry
    /\ \E p \in FilterPlans : run = [pc |-> "called", plan |-> p, res |-> Ok(<<>>)]

ExecuteCall ==
    /\ run.pc = "called"
    /\ \E e \in Execute(run.plan, store) :
          run' = [run EXCEPT !.pc = "returned", !.res = e]
    /\ UNCHANGED <<catalog, store, disk, last, built, bld, qry>>

NextExec == ExecuteCall

SpecExec == InitExec /\ [][NextExec]_vars

\* what the claim asks of a returned record, stated on the record itself
Satisfies(f, r) ==
    /\ f.borough.some =>
          \E i \in 1..Len(r.borough) :
             /\ i + Len(f.borough.val) - 1 <= Len(r.borough)
             /\ \A j \in 1..Len(f.borough.val) :
                   LowerOf(r.borough[i + j - 1]) = LowerOf(f.borough.val[j])
    /\ f.bedrooms.some => r.bedrooms = f.bedrooms.val
    /\ f.max_price.some => r.price <= f.max_price.val

----------------------------------------------------------------------------
(* build_index and query running as threads on the shared store            *)
(* (SpecThreads).  The handlers of main.py are plain `def`s, which FastAPI *)
(* runs on a thread pool; the code takes no lock, so threads interleave    *)
(* between any two accesses of the store's attributes or of the files.     *)

Builders == {"b1", "b2"}

\* catalogs of the threaded builds: two runs of MaxRows pool rows that differ
\* in every row; each builder thread runs one build
ConcCatalogs == {SubSeq(Pool, a, a + MaxRows - 1) : a \in 1..2}
ConcQueries == {Questions[1]}

BldIdle == [pc |-> "idle", df |-> <<>>]
QryIdle == [pc |-> "idle", q |-> <<>>, k |-> 0, hits |-> <<>>, j |-> 0,
            index |-> <<>>, metas |-> {}, texts |-> {}, meta |-> <<>>,
            res |-> Ok(<<>>)]

InitThreads ==
    /\ catalog = <<>>
    /\ \E c \in ConcCatalogs :
          /\ store = BuiltStore(c)
          /\ disk = BuiltDisk(c)
    /\ last = NoOp
    /\ built = NoBuild
    /\ bld = [b \in Builders |-> BldIdle]
    /\ qry = QryIdle
    /\ run = IdleRun

\* line 21: self.df = df
BuildSetDf(b) ==
    /\ bld[b].pc = "idle"
    /\ \E df \in ConcCatalogs :
          /\ store' = [store EXCEPT !.df = Some(df)]
          /\ bld' = [bld EXCEPT ![b] = [pc |-> "save", df |-> df]]
    /\ UNCHANGED <<catalog, disk, last, built, qry, run>>

\* lines 27-29: encode, np.save, IndexFlatL2(emb.shape[1])
BuildSaveEmbeddings(b) ==
    /\ bld[b].pc = "save"
    /\ disk' = [disk EXCEPT !.emb = Some(Embeddings(Docs(bld[b].df)))]
    /\ bld' = [bld EXCEPT ![b] =
                 [@ EXCEPT !.pc = IF Len(bld[b].df) = 0 THEN "raised" ELSE "index"]]
    /\ UNCHANGED <<catalog, store, last, built, qry, run>>

\* line 31, first target: self.index = idx
BuildSetIndex(b) ==
    /\ bld[b].pc = "index"
    /\ store' = [store EXCEPT !.index = Some(Embeddings(Docs(bld[b].df)))]
    /\ bld' = [bld EXCEPT ![b].pc = "texts"]
    /\ UNCHANGED <<catalog, disk, last, built, qry, run>>

\* line 31, second target: self.texts = docs
BuildSetTexts(b) ==
    /\ bld[b].pc = "texts"
    /\ store' = [store EXCEPT !.texts = Docs(bld[b].df)]
    /\ bld' = [bld EXCEPT ![b].pc = "metas"]
    /\ UNCHANGED <<catalog, disk, last, built, qry, run>>

\* line 31, third target: self.metas = metas
BuildSetMetas(b) ==
    /\ bld[b].pc = "metas"
    /\ store' = [store EXCEPT !.metas = Metas(bld[b].df)]
    /\ bld' = [bld EXCEPT ![b].pc = "write"]
    /\ UNCHANGED <<catalog, disk, last, built, qry, run>>

\* line 32: faiss.write_index
BuildWriteIndex(b) ==
    /\ bld[b].pc = "write"
    /\ disk' = [disk EXCEPT !.index = Some(Embeddings(Docs(bld[b].df)))]
    /\ bld' = [bld EXCEPT ![b].pc = "dump"]
    /\ UNCHANGED <<catalog, store, last, built, qry, run>>

\* lines 33-35: pickle.dump, return
BuildDumpMeta(b) ==
    /\ bld[b].pc = "dump"
    /\ disk' = [disk EXCEPT !.meta = Some([texts |-> Docs(bld[b].df),
                                           metas |-> Metas(bld[b].df)])]
    /\ bld' = [bld EXCEPT ![b].pc = "returned"]
    /\ UNCHANGED <<catalog, store, last, built, qry, run>>

\* line 47: if not self.index
QueryGuard ==
    /\ qry.pc = "idle"
    /\ \E q \in ConcQueries, k \in 1..MaxK :
          qry' = IF store.index.some
                   THEN [qry EXCEPT !.pc = "search", !.q = q, !.k = k]
                   ELSE [qry EXCEPT !.pc = "raised", !.q = q, !.k = k,
                                    !.res = Raise("ValueError")]
    /\ UNCHANGED <<catalog, store, disk, last, built, bld, run>>

\* lines 49-50: self.index.search(q_emb, k)
QuerySearch ==
    /\ qry.pc = "search"
    /\ \E hits \in Search(store.index.val, EncodeQuery(qry.q), qry.k) :
          qry' = [qry EXCEPT !.pc = "meta", !.hits = hits, !.j = 1,
                             !.index = store.index.val]
    /\ UNCHANGED <<catalog, store, disk, last, built, bld, run>>

\* line 53: meta = self.metas[idx]
QueryReadMeta ==
    /\ qry.pc = "meta"
    /\ LET idx == qry.hits[qry.j].idx
       IN qry' = IF ValidIdx(store.metas, idx)
                   THEN [qry EXCEPT !.pc = "text", !.meta = PyItem(store.metas, idx),
                                    !.metas = @ \cup {store.metas}]
                   ELSE [qry EXCEPT !.pc = "raised", !.metas = @ \cup {store.metas},
                                    !.res = Raise("IndexError")]
    /\ UNCHANGED <<catalog, store, disk, last, built, bld, run>>

\* lines 54-58: results.append({... self.texts[idx]}); line 59 after the last
QueryReadText ==
    /\ qry.pc = "text"
    /\ LET idx == qry.hits[qry.j].idx
       IN qry' = IF ValidIdx(store.texts, idx)
                   THEN [qry EXCEPT
                           !.pc = IF qry.j = Len(qry.hits) THEN "done" ELSE "meta",
                           !.j = @ + 1,
                           !.texts = @ \cup {store.texts},
                           !.res = Ok(Append(@.val,
                                     [property_id |-> qry.meta.pid,
                                      distance |-> qry.hits[qry.j].d,
                                      snippet |-> PyItem(store.texts, idx)]))]
                   ELSE [qry EXCEPT !.pc = "raised", !.texts = @ \cup {store.texts},
                                    !.res = Raise("IndexError")]
    /\ UNCHANGED <<catalog, store, disk, last, built, bld, run>>

NextThreads ==
    \/ \E b \in Builders : BuildSetDf(b)
    \/ \E b \in Builders : BuildSaveEmbeddings(b)
    \/ \E b \in Builders : BuildSetIndex(b)
    \/ \E b \in Builders : BuildSetTexts(b)
    \/ \E b \in Builders : BuildSetMetas(b)
    \/ \E b \in Builders : BuildWriteIndex(b)
    \/ \E b \in Builders : BuildDumpMeta(b)
    \/ QueryGuard
    \/ QuerySearch
    \/ QueryReadMeta
    \/ QueryReadText

SpecThreads == InitThreads /\ [][NextThreads]_vars

\* C2: a query that runs while builds run reads its index, texts and metas
\* from one and the same build, and once no build is in flight the store's
\* index, texts and metas and the three files are those of one build.
C2_QuerySeesOneBuild ==
    /\ (qry.pc \in {"done", "raised"} /\ qry.res.exc # "ValueError")
          => \E c \in ConcCatalogs :
                /\ qry.index = Embeddings(Docs(c))
                /\ qry.metas \subseteq {Metas(c)}
                /\ qry.texts \subseteq {Docs(c)}
    /\ (\A b \in Builders : bld[b].pc \in {"idle", "returned"})
          => \E c \in ConcCatalogs :
                /\ store.index = BuiltStore(c).index
                /\ store.texts = BuiltStore(c).texts
                /\ store.metas = BuiltStore(c).metas
                /\ disk = BuiltDisk(c)

----------------------------------------------------------------------------
(* execute(plan) on a store that has been built, for a plan of either tool *)
(* (SpecTool).  execute takes the plan alone; the clarified text stays in  *)
(* the frame of its caller (run.q).                                        *)

\* the values plan["tool"] can hold
PlanTools == {"filter", "retrieve"}

ToolPlans == {[p EXCEPT !.tool = t] : p \in FilterPlans, t \in PlanTools}

ToolCatalogs == {c \in ExecCatalogs : Len(c) > 0}

InitTool ==
    /\ catalog = <<>>
    /\ \E c \in ToolCatalogs :
          /\ store = BuildIndex(FreshStore, EmptyDisk, c, "none").store
          /\ disk = BuildIndex(FreshStore, EmptyDisk, c, "none").disk
    /\ last = NoOp
    /\ built = NoBuild
    /\ bld = IdleBld
    /\ qry = IdleQry
    /\ \E p \in ToolPlans, q \in StoreQueries :
          run = [pc |-> "called", q |-> q, plan |-> p, res |-> Ok(<<>>)]

NextTool == ExecuteCall

SpecTool == InitTool /\ [][NextTool]_vars

\* the catalog records named by a query result, in the result's order
Lookup(df, hits) ==
    [j \in 1..Len(hits) |->
        df[CHOOSE i \in 1..Len(df) : df[i].property_id = hits[j].property_id]]

\* what a retrieval through the store returns for the text q: the records of
\* the N nearest entries (of all entries when the store holds fewer)
Retrieved(s, q) ==
    {Head5(Lookup(s.df.val, out.val)) :
        out \in {o \in Query(s, q, Min(TopN, Len(s.df.val))) : o.kind = "ok"}}

\* C11: for a plan whose tool is "retrieve", execute does not filter the
\* catalog; it returns the catalog records whose property_id the store's
\* query returned for the clarified text, in the store's order (ascending
\* distance), truncated to N.  A plan whose tool is "filter" is filtered
\* and ranked by price.
C11_RetrieveGoesThroughStore ==
    run.pc = "returned"
        => /\ run.res.kind = "ok"
           /\ run.plan.tool = "retrieve" => run.res.val \in Retrieved(store, run.q)
           /\ run.plan.tool = "filter" =>
                 /\ \A j \in 1..Len(run.res.val) :
                       Satisfies(run.plan.filters, run.res.val[j])
                 /\ \A j \in 1..(Len(run.res.val) - 1) :
                       run.res.val[j].price <= run.res.val[j + 1].price

----------------------------------------------------------------------------
(* clarify followed by plan, on the runs of SpecAgent. *)

\* the word "cheap" occurs in q, in any letter case
HasCheapSignal(q) ==
    \E i \in 1..Len(q) :
        /\ i + Len(CheapWord) - 1 <= Len(q)
        /\ \A j \in 1..Len(CheapWord) : LowerOf(q[i + j - 1]) = CheapWord[j]

\* q carries a price phrase of its own ("under" and an amount)
HasPricePhrase(q) == SearchUnder(Lower(q)).some

\* C12: for a raw query that contains "cheap" in any letter case and no
\* price phrase of its own, the plan computed from the clarified query has
\* max_price 500000, whatever else the query says; a raw query without the
\* signal is returned by clarify unchanged.
C12_CheapCeilingIsHalfMillion ==
    /\ (/\ run.pc \in {"planned", "executed", "responded", "done"}
        /\ HasCheapSignal(run.q)
        /\ ~HasPricePhrase(run.q))
          => run.plan.filters.max_price = Some(500000)
    /\ (run.pc # "start" /\ ~HasCheapSignal(run.q)) => run.clarified = run.q

============================================================================
